---------------------------- MODULE Spec2Model ----------------------------
(***************************************************************************)
(* Model of the two simulated-signal kernel modules of the repository:     *)
(*   sw/module/pps-sim/pps-sim.c   the PPS event counter and its blocking  *)
(*                                 read (wait) primitive                   *)
(*   sw/module/gps-sim/gps-sim.c   the GNSS/NMEA sentence synthesis timer  *)
(* Every consumer of the PPS device is a task that walks through pps_read  *)
(* one kernel step at a time, so that the timer callback interleaves with  *)
(* the wait loop of wait_event_interruptible.                              *)
(***************************************************************************)
EXTENDS Integers, Sequences, FiniteSets, TLC

(***************************************************************************)
(* Bounds of the model.                                                    *)
(***************************************************************************)
MaxPpsTicks == 3
MaxGpsTicks == 2

\* the consumer tasks that open /dev/pps_interrupt
Consumers == {"c1", "c2"}

(***************************************************************************)
(* Kernel error numbers returned by the file operations (negated).         *)
(***************************************************************************)
ENOMEM == 12
EFAULT == 14
ERESTARTSYS == 512

VARIABLES
    \* ---- pps-sim.c ----
    pps_event_counter,  \* static atomic_t pps_event_counter
    pps_timer_pc,       \* position of pps_timer_func: "armed" | "wake"
    pps_wait_queue,     \* consumers with a wait entry on pps_wait_queue
    file_open,          \* the consumer holds an open file (a cursor exists)
    private_data,       \* *last_seen_event of the consumer's open file
    rd_pc,              \* position of each consumer inside pps_read
    current_event,      \* pps_read's local current_event
    wait_int,           \* __int of the wait loop: a signal was seen pending
    task_state,         \* "running" | "interruptible"
    sig_pending,        \* a signal is pending for the task
    sys_ret,            \* result of the consumer's last open/read system call
    \* history of the current wait, for the properties
    opened_at,          \* counter value when the cursor was attached
    w_ticks,            \* increments since the wait found its predicate false
    w_first,            \* counter value produced by the first such increment
    \* ---- gps-sim.c ----
    gps_hour, gps_min, gps_sec,             \* simulated time of day
    lat_deg, lat_min_int, lat_min_frac,     \* simulated latitude
    lon_deg, lon_min_int, lon_min_frac,     \* simulated longitude
    start_lat, start_lon,                   \* module parameters (micro-degrees)
    error_rate, signal_loss,                \* module parameters (fault injection)
    tty_open,           \* a reader holds /dev/ttyGPS0 open (the port has a tty)
    gps_pc,             \* position of gps_simulate_nmea; "armed": timer pending
    nmea_out,           \* the sentence the callback rendered last for the tty
    tick_log,           \* kinds of the sentences pushed in the current tick
    gps_ticks           \* number of timer expiries so far (bounded runs only)

ppsVars == <<pps_event_counter, pps_timer_pc, pps_wait_queue, file_open,
             private_data,
             rd_pc, current_event, wait_int, task_state, sig_pending, sys_ret,
             opened_at, w_ticks, w_first>>

gpsVars == <<gps_hour, gps_min, gps_sec, lat_deg, lat_min_int, lat_min_frac,
             lon_deg, lon_min_int, lon_min_frac, start_lat, start_lon,
             error_rate, signal_loss, tty_open, gps_pc, nmea_out, tick_log,
             gps_ticks>>

vars == <<ppsVars, gpsVars>>

(***************************************************************************)
(* int arithmetic of the kernel build: atomic_t wraps in two's complement. *)
(***************************************************************************)
INT_MAX == 2147483647

INT_MIN == -INT_MAX - 1

\* a plausible slip: the counter is bumped twice per tick
AtomicIncTwice(v) == IF v >= INT_MAX - 1 THEN INT_MIN ELSE v + 2

AtomicInc(v) == IF v = INT_MAX THEN INT_MIN ELSE v + 1

AtomicRead(v) == v

\* number of characters snprintf("%d") produces
RECURSIVE DecLen(_)
DecLen(n) == IF n < 0 THEN 1 + DecLen(-n)
             ELSE IF n < 10 THEN 1 ELSE 1 + DecLen(n \div 10)

\* len = snprintf(kbuf, sizeof(kbuf), "%d\n", current_event); if (len > count) len = count;
ReadLen(ev, count) == LET len == DecLen(ev) + 1
                      IN  IF len > count THEN count ELSE len

\* a system call's return value; has_id: an event id was copied to the caller
Ret(r) == [ret |-> r, has_id |-> FALSE, id |-> 0, done |-> TRUE]

\* the consumer is inside a system call that has not returned yet
InCall == [ret |-> 0, has_id |-> FALSE, id |-> 0, done |-> FALSE]

RetEvent(r, ev) == [ret |-> r, has_id |-> TRUE, id |-> ev, done |-> TRUE]

\* pps_open: *last_seen_event = atomic_read(&pps_event_counter)
\* (a plausible slip starts the cursor one event behind)
OpenCursorBehind == AtomicRead(pps_event_counter) - 1

OpenCursor == AtomicRead(pps_event_counter)

\* the wait predicate's assignment current_event = atomic_read(&pps_event_counter)
CondValueStale(c) == current_event[c]

\* a plausible slip: events are handed out one by one, as from a queue
CondValueNextId(c) == private_data[c] + 1

CondValue(c) == AtomicRead(pps_event_counter)

\* the value pps_read formats into kbuf and copies to the caller
ReportedEventStale(c) == private_data[c]

ReportedEvent(c) == current_event[c]

\* what pps_read returns when the wait was interrupted: if (ret) return ret;
\* (a plausible slip drops the test and falls through to the copy)
InterruptedRetAsEvent(c) == RetEvent(0, CondValue(c))

InterruptedRet(c) == Ret(-ERESTARTSYS)

\* the consumer is inside the wait loop of wait_event_interruptible
InWaitLoop(c) == rd_pc[c] \in {"prepare", "cond", "sched"}

(***************************************************************************)
(* Initial state: pps_sim_init has run, the timer is armed, no file open.  *)
(***************************************************************************)
PpsInit ==
    /\ pps_event_counter = 0
    /\ pps_timer_pc = "armed"
    /\ pps_wait_queue = {}
    /\ file_open = [c \in Consumers |-> FALSE]
    /\ private_data = [c \in Consumers |-> 0]
    /\ rd_pc = [c \in Consumers |-> "none"]
    /\ current_event = [c \in Consumers |-> 0]
    /\ wait_int = [c \in Consumers |-> FALSE]
    /\ task_state = [c \in Consumers |-> "running"]
    /\ sig_pending = [c \in Consumers |-> FALSE]
    /\ sys_ret = [c \in Consumers |-> Ret(0)]
    /\ opened_at = [c \in Consumers |-> 0]
    /\ w_ticks = [c \in Consumers |-> 0]
    /\ w_first = [c \in Consumers |-> 0]

(***************************************************************************)
(* pps_timer_func, first statement: atomic_inc(&pps_event_counter).        *)
(***************************************************************************)
PpsTimerInc ==
    /\ pps_timer_pc = "armed"
    /\ pps_event_counter < MaxPpsTicks
    /\ pps_event_counter' = AtomicInc(pps_event_counter)
    /\ pps_timer_pc' = "wake"
    /\ w_ticks' = [c \in Consumers |->
                     IF InWaitLoop(c) THEN w_ticks[c] + 1 ELSE w_ticks[c]]
    /\ w_first' = [c \in Consumers |->
                     IF InWaitLoop(c) /\ w_ticks[c] = 0
                     THEN AtomicInc(pps_event_counter) ELSE w_first[c]]
    /\ UNCHANGED <<file_open, pps_wait_queue, private_data, rd_pc, current_event,
                   wait_int, task_state, sig_pending, sys_ret, opened_at>>

\* a plausible slip: the timer is re-armed and nobody is woken
PpsTimerWakeNone ==
    /\ pps_timer_pc = "wake"
    /\ pps_timer_pc' = "armed"
    /\ UNCHANGED <<file_open, pps_event_counter, pps_wait_queue, private_data,
                   rd_pc, current_event, wait_int, task_state, sig_pending,
                   sys_ret, opened_at, w_ticks, w_first>>

(***************************************************************************)
(* pps_timer_func, rest: wake_up_interruptible(&pps_wait_queue) wakes      *)
(* every queued task that sleeps interruptibly (its entry removes itself), *)
(* then mod_timer re-arms the timer.                                       *)
(***************************************************************************)
PpsTimerWake ==
    /\ pps_timer_pc = "wake"
    /\ LET woken == {c \in pps_wait_queue : task_state[c] = "interruptible"}
       IN  /\ task_state' = [c \in Consumers |->
                               IF c \in woken THEN "running" ELSE task_state[c]]
           /\ pps_wait_queue' = pps_wait_queue \ woken
    /\ pps_timer_pc' = "armed"
    /\ UNCHANGED <<file_open, pps_event_counter, private_data, rd_pc, current_event,
                   wait_int, sig_pending, sys_ret, opened_at, w_ticks, w_first>>

(***************************************************************************)
(* pps_open: kmalloc may fail (-ENOMEM, nothing attached); otherwise the   *)
(* cursor starts at the current counter value.                             *)
(***************************************************************************)
PpsOpen(c, alloc_ok) ==
    /\ ~file_open[c]
    /\ rd_pc[c] = "none"
    /\ IF alloc_ok
       THEN /\ file_open' = [file_open EXCEPT ![c] = TRUE]
            /\ private_data' = [private_data EXCEPT ![c] = OpenCursor]
            /\ opened_at' = [opened_at EXCEPT
                               ![c] = AtomicRead(pps_event_counter)]
            /\ sys_ret' = [sys_ret EXCEPT ![c] = Ret(0)]
       ELSE /\ sys_ret' = [sys_ret EXCEPT ![c] = Ret(-ENOMEM)]
            /\ UNCHANGED <<file_open, private_data, opened_at>>
    /\ UNCHANGED <<pps_event_counter, pps_timer_pc, pps_wait_queue, rd_pc,
                   current_event, wait_int, task_state, sig_pending,
                   w_ticks, w_first>>

\* a plausible slip: the release of one file empties the shared wait queue
PpsReleaseFlush(c) ==
    /\ file_open[c]
    /\ rd_pc[c] = "none"
    /\ file_open' = [file_open EXCEPT ![c] = FALSE]
    /\ private_data' = [private_data EXCEPT ![c] = 0]
    /\ opened_at' = [opened_at EXCEPT ![c] = 0]
    /\ w_ticks' = [w_ticks EXCEPT ![c] = 0]
    /\ w_first' = [w_first EXCEPT ![c] = 0]
    /\ sys_ret' = [sys_ret EXCEPT ![c] = Ret(0)]
    /\ pps_wait_queue' = {}
    /\ UNCHANGED <<pps_event_counter, pps_timer_pc, rd_pc,
                   current_event, wait_int, task_state, sig_pending>>

(***************************************************************************)
(* pps_release: kfree(file->private_data).  The kernel calls it only when  *)
(* no read on the file is in progress.                                     *)
(***************************************************************************)
PpsRelease(c) ==
    /\ file_open[c]
    /\ rd_pc[c] = "none"
    /\ file_open' = [file_open EXCEPT ![c] = FALSE]
    /\ private_data' = [private_data EXCEPT ![c] = 0]
    /\ opened_at' = [opened_at EXCEPT ![c] = 0]
    /\ w_ticks' = [w_ticks EXCEPT ![c] = 0]
    /\ w_first' = [w_first EXCEPT ![c] = 0]
    /\ sys_ret' = [sys_ret EXCEPT ![c] = Ret(0)]
    /\ UNCHANGED <<pps_event_counter, pps_timer_pc, pps_wait_queue, rd_pc,
                   current_event, wait_int, task_state, sig_pending>>

(***************************************************************************)
(* pps_read, entry: wait_event_interruptible evaluates the predicate once  *)
(* before it enters the wait loop.                                         *)
(***************************************************************************)
PpsReadEnter(c) ==
    /\ file_open[c]
    /\ rd_pc[c] = "none"
    /\ current_event' = [current_event EXCEPT ![c] = CondValue(c)]
    /\ rd_pc' = [rd_pc EXCEPT
                   ![c] = IF AtomicRead(pps_event_counter) > private_data[c]
                          THEN "copy" ELSE "prepare"]
    /\ w_ticks' = [w_ticks EXCEPT ![c] = 0]
    /\ w_first' = [w_first EXCEPT ![c] = 0]
    /\ sys_ret' = [sys_ret EXCEPT ![c] = InCall]
    /\ UNCHANGED <<file_open, pps_event_counter, pps_timer_pc, pps_wait_queue,
                   private_data, wait_int, task_state, sig_pending, opened_at>>

(***************************************************************************)
(* Wait loop: prepare_to_wait_event.  With a signal pending it unlinks the *)
(* entry and reports -ERESTARTSYS; otherwise it queues the entry and sets  *)
(* the task state to TASK_INTERRUPTIBLE.                                   *)
(***************************************************************************)
PpsPrepareToWait(c) ==
    /\ rd_pc[c] = "prepare"
    /\ IF sig_pending[c]
       THEN /\ wait_int' = [wait_int EXCEPT ![c] = TRUE]
            /\ pps_wait_queue' = pps_wait_queue \ {c}
            /\ UNCHANGED task_state
       ELSE /\ wait_int' = [wait_int EXCEPT ![c] = FALSE]
            /\ pps_wait_queue' = pps_wait_queue \cup {c}
            /\ task_state' = [task_state EXCEPT ![c] = "interruptible"]
    /\ rd_pc' = [rd_pc EXCEPT ![c] = "cond"]
    /\ UNCHANGED <<file_open, pps_event_counter, pps_timer_pc, private_data,
                   current_event, sig_pending, sys_ret, opened_at,
                   w_ticks, w_first>>

(***************************************************************************)
(* Wait loop: the predicate                                                *)
(*   (current_event = atomic_read(&pps_event_counter)) > *last_seen_event  *)
(* is evaluated first; only when it is false does a seen signal end the    *)
(* wait with -ERESTARTSYS (pps_read returns ret); else the task schedules. *)
(***************************************************************************)
PpsWaitCond(c) ==
    /\ rd_pc[c] = "cond"
    /\ current_event' = [current_event EXCEPT ![c] = CondValue(c)]
    /\ IF AtomicRead(pps_event_counter) > private_data[c]
       THEN \* finish_wait
            /\ rd_pc' = [rd_pc EXCEPT ![c] = "copy"]
            /\ task_state' = [task_state EXCEPT ![c] = "running"]
            /\ pps_wait_queue' = pps_wait_queue \ {c}
            /\ UNCHANGED <<sys_ret, sig_pending, wait_int>>
       ELSE IF wait_int[c]
       THEN \* if (ret) return ret;  the signal is handled on return
            /\ rd_pc' = [rd_pc EXCEPT ![c] = "none"]
            /\ sys_ret' = [sys_ret EXCEPT ![c] = InterruptedRet(c)]
            /\ sig_pending' = [sig_pending EXCEPT ![c] = FALSE]
            /\ wait_int' = [wait_int EXCEPT ![c] = FALSE]
            /\ task_state' = [task_state EXCEPT ![c] = "running"]
            /\ pps_wait_queue' = pps_wait_queue \ {c}
       ELSE /\ rd_pc' = [rd_pc EXCEPT ![c] = "sched"]
            /\ UNCHANGED <<sys_ret, sig_pending, wait_int, task_state,
                           pps_wait_queue>>
    /\ UNCHANGED <<file_open, pps_event_counter, pps_timer_pc, private_data, opened_at,
                   w_ticks, w_first>>

(***************************************************************************)
(* Wait loop: schedule().  The task runs again once a wake-up or a signal  *)
(* made it runnable, and goes round the loop.                              *)
(***************************************************************************)
PpsSchedule(c) ==
    /\ rd_pc[c] = "sched"
    /\ task_state[c] = "running" \/ sig_pending[c]
    /\ task_state' = [task_state EXCEPT ![c] = "running"]
    /\ rd_pc' = [rd_pc EXCEPT ![c] = "prepare"]
    /\ UNCHANGED <<file_open, pps_event_counter, pps_timer_pc, pps_wait_queue,
                   private_data, current_event, wait_int, sig_pending,
                   sys_ret, opened_at, w_ticks, w_first>>

\* a plausible slip: the cursor is advanced before the copy is known to
\* have succeeded
PpsReadCopyConsumes(c, count, copy_ok) ==
    /\ rd_pc[c] = "copy"
    /\ private_data' = [private_data EXCEPT ![c] = current_event[c]]
    /\ sys_ret' = [sys_ret EXCEPT
                     ![c] = IF copy_ok
                            THEN RetEvent(ReadLen(ReportedEvent(c), count),
                                          ReportedEvent(c))
                            ELSE Ret(-EFAULT)]
    /\ rd_pc' = [rd_pc EXCEPT ![c] = "none"]
    /\ sig_pending' = [sig_pending EXCEPT ![c] = FALSE]
    /\ wait_int' = [wait_int EXCEPT ![c] = FALSE]
    /\ UNCHANGED <<file_open, pps_event_counter, pps_timer_pc, pps_wait_queue,
                   current_event, task_state, opened_at, w_ticks, w_first>>

(***************************************************************************)
(* pps_read, after the wait: format, copy_to_user, and only after a        *)
(* successful copy *last_seen_event = current_event.                       *)
(***************************************************************************)
PpsReadCopy(c, count, copy_ok) ==
    /\ rd_pc[c] = "copy"
    /\ IF copy_ok
       THEN /\ private_data' = [private_data EXCEPT ![c] = current_event[c]]
            /\ sys_ret' = [sys_ret EXCEPT
                             ![c] = RetEvent(ReadLen(ReportedEvent(c), count),
                                             ReportedEvent(c))]
       ELSE /\ sys_ret' = [sys_ret EXCEPT ![c] = Ret(-EFAULT)]
            /\ UNCHANGED private_data
    /\ rd_pc' = [rd_pc EXCEPT ![c] = "none"]
    /\ sig_pending' = [sig_pending EXCEPT ![c] = FALSE]
    /\ wait_int' = [wait_int EXCEPT ![c] = FALSE]
    /\ UNCHANGED <<file_open, pps_event_counter, pps_timer_pc, pps_wait_queue,
                   current_event, task_state, opened_at, w_ticks, w_first>>

(***************************************************************************)
(* A signal is sent to a task that is inside the wait loop of pps_read: it *)
(* becomes pending and an interruptible sleeper is made runnable.          *)
(***************************************************************************)
SendSignal(c) ==
    /\ InWaitLoop(c)
    /\ ~sig_pending[c]
    /\ sig_pending' = [sig_pending EXCEPT ![c] = TRUE]
    /\ task_state' = [task_state EXCEPT ![c] = "running"]
    /\ UNCHANGED <<file_open, pps_event_counter, pps_timer_pc, pps_wait_queue,
                   private_data, rd_pc, current_event, wait_int, sys_ret,
                   opened_at, w_ticks, w_first>>

\* buffer sizes a caller passes to read(): legs-main reads sizeof(buffer) - 1
ReadCounts == {31}

PpsConsumerStep(c) ==
    \/ PpsReadEnter(c)
    \/ PpsPrepareToWait(c)
    \/ PpsWaitCond(c)
    \/ PpsSchedule(c)
    \/ \E count \in ReadCounts, ok \in BOOLEAN : PpsReadCopy(c, count, ok)

PpsNext ==
    \/ PpsTimerInc /\ UNCHANGED gpsVars
    \/ PpsTimerWake /\ UNCHANGED gpsVars
    \/ \E c \in Consumers, ok \in BOOLEAN : PpsOpen(c, ok) /\ UNCHANGED gpsVars
    \/ \E c \in Consumers : PpsRelease(c) /\ UNCHANGED gpsVars
    \/ \E c \in Consumers : PpsConsumerStep(c) /\ UNCHANGED gpsVars
    \/ \E c \in Consumers : SendSignal(c) /\ UNCHANGED gpsVars

(***************************************************************************)
(*                              gps-sim.c                                  *)
(***************************************************************************)

(***************************************************************************)
(* Text is a sequence of ASCII codes.  snprintf's conversions:             *)
(***************************************************************************)
\* the decimal digits of n >= 0, most significant first
DecDigits(n) ==
    LET k == DecLen(n)
    IN  [i \in 1..k |-> 48 + ((n \div (10 ^ (k - i))) % 10)]

\* zeros in front of ds up to the width w
ZeroPad(ds, w) ==
    IF Len(ds) >= w THEN ds ELSE [i \in 1..(w - Len(ds)) |-> 48] \o ds

\* "%0wd": zero padded to at least w characters, the sign counted in
FmtD0(n, w) == IF n < 0 THEN <<45>> \o ZeroPad(DecDigits(-n), w - 1)
               ELSE ZeroPad(DecDigits(n), w)

\* "%d"
FmtD(n) == FmtD0(n, 1)

\* one digit of "%02X"
HexDigit(d) == IF d < 10 THEN 48 + d ELSE 55 + d

FmtX2(b) == <<HexDigit(b \div 16), HexDigit(b % 16)>>

\* snprintf(buf, size, ...) keeps at most size - 1 characters
Truncate(s, size) == IF Len(s) > size - 1 THEN SubSeq(s, 1, size - 1) ELSE s

\* bit k of byte a
Bit(a, k) == (a \div (2 ^ k)) % 2

\* bitwise exclusive or of two half bytes, bit by bit
XorBits(a, b) ==
    ((Bit(a, 0) + Bit(b, 0)) % 2)
      + 2 * ((Bit(a, 1) + Bit(b, 1)) % 2)
      + 4 * ((Bit(a, 2) + Bit(b, 2)) % 2)
      + 8 * ((Bit(a, 3) + Bit(b, 3)) % 2)

\* the same, tabulated once
XorTable == [a \in 0..15 |-> [b \in 0..15 |-> XorBits(a, b)]]

\* bitwise exclusive or of two bytes, half byte by half byte, tabulated
XorByteTable ==
    [a \in 0..255 |-> [b \in 0..255 |->
        16 * XorTable[a \div 16][b \div 16] + XorTable[a % 16][b % 16]]]

\* bitwise exclusive or of two bytes
Xor8(a, b) == XorByteTable[a][b]

(***************************************************************************)
(* nmea_checksum: the exclusive or of every character up to the NUL.       *)
(***************************************************************************)
\* c ^= t[1]; ...; c ^= t[Len(t)], starting from c = 0.  The exclusive or
\* is associative, so the run of the loop is folded by halves.
XorFold[t \in Seq(0..255)] ==
    IF Len(t) = 0 THEN 0
    ELSE IF Len(t) = 1 THEN t[1]
    ELSE LET mid == Len(t) \div 2
         IN  Xor8(XorFold[SubSeq(t, 1, mid)],
                  XorFold[SubSeq(t, mid + 1, Len(t))])

\* the loop run over s[lo] .. s[hi]
XorRange(s, lo, hi) == XorFold[SubSeq(s, lo, hi)]

\* a plausible slip: the loop starts at the second character
nmea_checksum_skip(s) == XorRange(s, 2, Len(s))

nmea_checksum(s) == XorRange(s, 1, Len(s))

(***************************************************************************)
(* The fault test (get_random_u32() % 100) < error_rate compares a u32     *)
(* with an int: the int is converted to u32, so a negative error_rate      *)
(* becomes a value of at least 2^31, above every draw in 0..99.            *)
(***************************************************************************)
FaultFiresInclusive(draw, rate) == IF rate < 0 THEN TRUE
                                   ELSE (draw % 100) <= rate

FaultFires(draw, rate) == IF rate < 0 THEN TRUE ELSE (draw % 100) < rate

\* cs is an unsigned char: cs++ wraps at 256
Checksum(content, fired) ==
    IF fired THEN (nmea_checksum(content) + 1) % 256
    ELSE nmea_checksum(content)

\* snprintf(nmea_sentence, sizeof(nmea_sentence), "$%s*%02X\r\n", content, cs)
Sentence(content, cs) ==
    Truncate(<<36>> \o content \o <<42>> \o FmtX2(cs) \o <<13, 10>>, 128)

(***************************************************************************)
(* The sentence bodies (content, a buffer of 100 bytes).                   *)
(***************************************************************************)
\* "%02d%02d%02d"
TimeField == FmtD0(gps_hour, 2) \o FmtD0(gps_min, 2) \o FmtD0(gps_sec, 2)

\* (start_lat < 0) ? 'S' : 'N' and (start_lon < 0) ? 'W' : 'E'
LatLetterOf(v) == IF v < 0 THEN <<83>> ELSE <<78>>

LonLetterOf(v) == IF v < 0 THEN <<87>> ELSE <<69>>

\* "%02d%02d.%04d,%c,%03d%02d.%04d,%c"; the letters read the parameters again
PositionFields ==
    FmtD0(lat_deg, 2) \o FmtD0(lat_min_int, 2) \o <<46>>
      \o FmtD0(lat_min_frac, 4) \o <<44>>
      \o LatLetterOf(start_lat) \o <<44>>
      \o FmtD0(lon_deg, 3) \o FmtD0(lon_min_int, 2) \o <<46>>
      \o FmtD0(lon_min_frac, 4) \o <<44>>
      \o LonLetterOf(start_lon)

\* "GNGGA,<time>,<position>,<fix>,08,0.9,545.4,M,46.9,M,,"
ContentGGA ==
    Truncate(
      <<71, 78, 71, 71, 65, 44>> \o TimeField \o <<44>> \o PositionFields
        \o <<44>>
        \o (IF signal_loss # 0
            THEN FmtD(IF signal_loss # 0 THEN 0 ELSE 1) ELSE <<49>>)
        \o <<44, 48, 56, 44, 48, 46, 57, 44, 53, 52, 53, 46, 52, 44, 77, 44,
             52, 54, 46, 57, 44, 77, 44, 44>>, 100)

\* "GNRMC,<time>,<status>,<position>,0.5,0.0,100226,,,A"
ContentRMC ==
    Truncate(
      <<71, 78, 82, 77, 67, 44>> \o TimeField \o <<44>>
        \o (IF signal_loss # 0
            THEN (IF signal_loss # 0 THEN <<86>> ELSE <<65>>)    \* 'V' : 'A'
            ELSE <<65>>)
        \o <<44>> \o PositionFields
        \o <<44, 48, 46, 53, 44, 48, 46, 48, 44, 49, 48, 48, 50, 50, 54, 44,
             44, 44, 65>>, 100)

\* "GNGSA,A,<fix>,01,03,06,12,17,28,,,,,,,1.5,1.0,1.2"
ContentGSA ==
    Truncate(
      <<71, 78, 71, 83, 65, 44, 65, 44>>
        \o FmtD(IF signal_loss # 0 THEN 1 ELSE 3)
        \o <<44, 48, 49, 44, 48, 51, 44, 48, 54, 44, 49, 50, 44, 49, 55, 44,
             50, 56, 44, 44, 44, 44, 44, 44, 44, 49, 46, 53, 44, 49, 46, 48,
             44, 49, 46, 50>>, 100)

\* static struct gps_sat sats[]: the virtual constellation
sats == <<[prn |-> 1,  elev |-> 45, az |-> 120, snr |-> 30],
          [prn |-> 3,  elev |-> 60, az |-> 210, snr |-> 35],
          [prn |-> 6,  elev |-> 30, az |-> 45,  snr |-> 25],
          [prn |-> 9,  elev |-> 15, az |-> 300, snr |-> 20],
          [prn |-> 12, elev |-> 70, az |-> 180, snr |-> 40],
          [prn |-> 17, elev |-> 25, az |-> 90,  snr |-> 28],
          [prn |-> 22, elev |-> 10, az |-> 270, snr |-> 15],
          [prn |-> 28, elev |-> 50, az |-> 330, snr |-> 32]>>

\* int snrN = (sats[i].snr + (get_random_u32() % 5)) * (signal_loss ? 0 : 1)
\* (a plausible slip forgets the factor)
SatSnrNoLoss(i, draw) == sats[i].snr + (draw % 5)

SatSnr(i, draw) == (sats[i].snr + (draw % 5)) * (IF signal_loss # 0 THEN 0 ELSE 1)

\* ",%02d,%02d,%03d,%02d" for one satellite
SatFields(i, draw) ==
    <<44>> \o FmtD0(sats[i].prn, 2) \o <<44>> \o FmtD0(sats[i].elev, 2)
      \o <<44>> \o FmtD0(sats[i].az, 3) \o <<44>> \o FmtD0(SatSnr(i, draw), 2)

\* "GNGSV,2,<msg + 1>,08,<sat>,<sat>,<sat>,<sat>"; msg is 0 or 1, draws the
\* four random numbers of the SNR jitter
ContentGSV(msg, draws) ==
    LET sat_start == msg * 4
    IN  Truncate(
          <<71, 78, 71, 83, 86, 44, 50, 44>> \o FmtD(msg + 1) \o <<44, 48, 56>>
            \o SatFields(sat_start + 1, draws[1])
            \o SatFields(sat_start + 2, draws[2])
            \o SatFields(sat_start + 3, draws[3])
            \o SatFields(sat_start + 4, draws[4]), 100)

(***************************************************************************)
(* update_coordinates_from_param                                           *)
(***************************************************************************)
AbsInt(v) == IF v < 0 THEN -v ELSE v

CoordDeg(v) == AbsInt(v) \div 1000000

CoordMinInt(v) == ((AbsInt(v) % 1000000) * 60) \div 1000000

\* the fraction rounded to the nearest ten-thousandth instead of cut
CoordMinFracRounded(v) ==
    ((((AbsInt(v) % 1000000) * 60) % 1000000) + 50) \div 100

CoordMinFrac(v) == (((AbsInt(v) % 1000000) * 60) % 1000000) \div 100

(***************************************************************************)
(* gps_simulate_nmea, "Update time": the clock after one expiry, as        *)
(* <<hour, min, sec>>.                                                     *)
(***************************************************************************)
ClockAdvanceLateWrap(h, m, s) ==
    IF s + 1 >= 60
    THEN IF m + 1 >= 60
         THEN IF h + 1 > 24 THEN <<0, 0, 0>> ELSE <<h + 1, 0, 0>>
         ELSE <<h, m + 1, 0>>
    ELSE <<h, m, s + 1>>

ClockAdvance(h, m, s) ==
    IF s + 1 >= 60
    THEN IF m + 1 >= 60
         THEN IF h + 1 >= 24 THEN <<0, 0, 0>> ELSE <<h + 1, 0, 0>>
         ELSE <<h, m + 1, 0>>
    ELSE <<h, m, s + 1>>

\* the jitter with the clamp left out
JitterNoClamp(frac, draw, sign_draw) ==
    IF sign_draw % 2 # 0 THEN frac + (draw % 20) ELSE frac - (draw % 20)

\* jitter = get_random_u32() % 20; if (get_random_u32() % 2) frac += jitter;
\* else frac -= jitter; then the clamp to 0..9999
Jitter(frac, draw, sign_draw) ==
    LET j == draw % 20
        v == IF sign_draw % 2 # 0 THEN frac + j ELSE frac - j
    IN  IF v < 0 THEN 0 ELSE IF v > 9999 THEN 9999 ELSE v

\* nothing rendered for the tty yet
NoSentence == [kind |-> "none", pushed |-> FALSE, bytes |-> <<>>,
               fired |-> FALSE, rate |-> 0, loss |-> 0, space |-> 0]

(***************************************************************************)
(* Initial state: gps_sim_init has derived the coordinates from the        *)
(* default parameters and armed the timer; nobody has opened the tty.      *)
(***************************************************************************)
GpsInit ==
    /\ gps_hour = 12 /\ gps_min = 35 /\ gps_sec = 19
    /\ start_lat = -35315075 /\ start_lon = 149129404
    /\ lat_deg = CoordDeg(start_lat)
    /\ lat_min_int = CoordMinInt(start_lat)
    /\ lat_min_frac = CoordMinFrac(start_lat)
    /\ lon_deg = CoordDeg(start_lon)
    /\ lon_min_int = CoordMinInt(start_lon)
    /\ lon_min_frac = CoordMinFrac(start_lon)
    /\ error_rate = 0 /\ signal_loss = 0
    /\ tty_open = FALSE
    /\ gps_pc = "armed"
    /\ nmea_out = NoSentence
    /\ tick_log = <<>>
    /\ gps_ticks = 0

gpsParams == <<start_lat, start_lon, error_rate, signal_loss>>

gpsClock == <<gps_hour, gps_min, gps_sec>>

gpsCoords == <<lat_deg, lat_min_int, lat_min_frac,
               lon_deg, lon_min_int, lon_min_frac>>

\* the expiry without the call of line 124: the jitter is added to the
\* coordinates of the tick before
GpsTimerExpireWalk(j_lat, s_lat, j_lon, s_lon, counted) ==
    /\ gps_pc = "armed"
    /\ counted => gps_ticks < MaxGpsTicks
    /\ gps_ticks' = IF counted THEN gps_ticks + 1 ELSE gps_ticks
    /\ lat_min_frac' = Jitter(lat_min_frac, j_lat, s_lat)
    /\ lon_min_frac' = Jitter(lon_min_frac, j_lon, s_lon)
    /\ LET t == ClockAdvance(gps_hour, gps_min, gps_sec)
       IN  gps_hour' = t[1] /\ gps_min' = t[2] /\ gps_sec' = t[3]
    /\ gps_pc' = "gga"
    /\ nmea_out' = NoSentence
    /\ tick_log' = <<>>
    /\ UNCHANGED <<gpsParams, tty_open, lat_deg, lat_min_int, lon_deg,
                   lon_min_int>>

(***************************************************************************)
(* gps_simulate_nmea, first part (the timer expired): re-derive the        *)
(* coordinates from the parameters, advance the clock, add the jitter and  *)
(* clamp.  counted: the run counts its expiries (bounded runs).            *)
(***************************************************************************)
GpsTimerExpire(j_lat, s_lat, j_lon, s_lon, counted) ==
    /\ gps_pc = "armed"
    /\ counted => gps_ticks < MaxGpsTicks
    /\ gps_ticks' = IF counted THEN gps_ticks + 1 ELSE gps_ticks
    /\ lat_deg' = CoordDeg(start_lat)
    /\ lat_min_int' = CoordMinInt(start_lat)
    /\ lat_min_frac' = Jitter(CoordMinFrac(start_lat), j_lat, s_lat)
    /\ lon_deg' = CoordDeg(start_lon)
    /\ lon_min_int' = CoordMinInt(start_lon)
    /\ lon_min_frac' = Jitter(CoordMinFrac(start_lon), j_lon, s_lon)
    /\ LET t == ClockAdvance(gps_hour, gps_min, gps_sec)
       IN  gps_hour' = t[1] /\ gps_min' = t[2] /\ gps_sec' = t[3]
    /\ gps_pc' = "gga"
    /\ nmea_out' = NoSentence
    /\ tick_log' = <<>>
    /\ UNCHANGED <<gpsParams, tty_open>>

(***************************************************************************)
(* One sentence: checksum, fault test, format, and the push to the tty:    *)
(* space = tty_prepare_flip_string(port, &p, len); if (space >= len) the   *)
(* sentence is copied and pushed.  room: the flip buffer has len bytes.    *)
(***************************************************************************)
\* a plausible slip: whatever space there is counts as enough
EmitPartial(kind, content, draw, room) ==
    \E body \in {content} :
    \E cs \in {Checksum(body, FaultFires(draw, error_rate))} :
    \E text \in {Sentence(body, cs)} :
    LET len   == Len(text)
        space == IF room THEN len ELSE len - 1
    IN  /\ nmea_out' = [kind |-> kind, pushed |-> space > 0,
                        bytes |-> text,
                        fired |-> FaultFires(draw, error_rate),
                        rate |-> error_rate,
                        loss |-> signal_loss, space |-> space]
        /\ tick_log' = IF space > 0 THEN Append(tick_log, kind)
                       ELSE tick_log

\* (body, cs and text are each computed once and then named)
Emit(kind, content, draw, room) ==
    \E body \in {content} :
    \E cs \in {Checksum(body, FaultFires(draw, error_rate))} :
    \E text \in {Sentence(body, cs)} :
    LET len   == Len(text)
        space == IF room THEN len ELSE len - 1
    IN  /\ nmea_out' = [kind |-> kind, pushed |-> space >= len,
                        bytes |-> text,
                        fired |-> FaultFires(draw, error_rate),
                        rate |-> error_rate,
                        loss |-> signal_loss, space |-> space]
        /\ tick_log' = IF space >= len THEN Append(tick_log, kind)
                       ELSE tick_log

(***************************************************************************)
(* gps_simulate_nmea: format GNGGA, then tty = tty_port_tty_get(port); the *)
(* sentence is pushed and the other sentences follow only with a tty,      *)
(* else the timer is re-armed at once.                                     *)
(***************************************************************************)
\* a plausible slip: the handler waits for a reader before it goes on
GpsSendGGAWaitsReader(draw, room) ==
    /\ gps_pc = "gga"
    /\ tty_open
    /\ Emit("GGA", ContentGGA, draw, room)
    /\ gps_pc' = "rmc"
    /\ UNCHANGED <<gpsParams, gpsClock, gpsCoords, tty_open, gps_ticks>>

GpsSendGGA(draw, room) ==
    /\ gps_pc = "gga"
    /\ IF tty_open
       THEN /\ Emit("GGA", ContentGGA, draw, room)
            /\ gps_pc' = "rmc"
       ELSE /\ gps_pc' = "armed"
            /\ UNCHANGED <<nmea_out, tick_log>>
    /\ UNCHANGED <<gpsParams, gpsClock, gpsCoords, tty_open, gps_ticks>>

GpsSendRMC(draw, room) ==
    /\ gps_pc = "rmc"
    /\ Emit("RMC", ContentRMC, draw, room)
    /\ gps_pc' = "gsa"
    /\ UNCHANGED <<gpsParams, gpsClock, gpsCoords, tty_open, gps_ticks>>

\* a plausible slip: the GNGSA block is left out
GpsSendGSASkipped(draw, room) ==
    /\ gps_pc = "gsa"
    /\ gps_pc' = "gsv0"
    /\ UNCHANGED <<gpsParams, gpsClock, gpsCoords, tty_open, gps_ticks,
                   nmea_out, tick_log>>

GpsSendGSA(draw, room) ==
    /\ gps_pc = "gsa"
    /\ Emit("GSA", ContentGSA, draw, room)
    /\ gps_pc' = "gsv0"
    /\ UNCHANGED <<gpsParams, gpsClock, gpsCoords, tty_open, gps_ticks>>

(***************************************************************************)
(* The GNGSV loop, for (msg = 0; msg < 2; msg++); after the second message *)
(* tty_kref_put and mod_timer re-arm the timer.                            *)
(***************************************************************************)
GpsSendGSV(msg, snr_draws, draw, room) ==
    /\ gps_pc = (IF msg = 0 THEN "gsv0" ELSE "gsv1")
    /\ Emit(IF msg = 0 THEN "GSV1" ELSE "GSV2",
            ContentGSV(msg, snr_draws), draw, room)
    /\ gps_pc' = (IF msg + 1 < 2 THEN "gsv1" ELSE "armed")
    /\ UNCHANGED <<gpsParams, gpsClock, gpsCoords, tty_open, gps_ticks>>

(***************************************************************************)
(* gps_tty_open / gps_tty_close: a reader attaches to or leaves the port.  *)
(***************************************************************************)
GpsTtyOpen ==
    /\ ~tty_open
    /\ tty_open' = TRUE
    /\ UNCHANGED <<gpsParams, gpsClock, gpsCoords, gps_pc, nmea_out,
                   tick_log, gps_ticks>>

GpsTtyClose ==
    /\ tty_open
    /\ tty_open' = FALSE
    /\ UNCHANGED <<gpsParams, gpsClock, gpsCoords, gps_pc, nmea_out,
                   tick_log, gps_ticks>>

(***************************************************************************)
(* module_param(..., int, 0644): the parameters are written at run time.   *)
(***************************************************************************)
SetErrorRate(v) ==
    /\ error_rate # v
    /\ error_rate' = v
    /\ UNCHANGED <<start_lat, start_lon, signal_loss, gpsClock, gpsCoords,
                   tty_open, gps_pc, nmea_out, tick_log, gps_ticks>>

SetSignalLoss(v) ==
    /\ signal_loss # v
    /\ signal_loss' = v
    /\ UNCHANGED <<start_lat, start_lon, error_rate, gpsClock, gpsCoords,
                   tty_open, gps_pc, nmea_out, tick_log, gps_ticks>>

\* start_lat and start_lon are written the same way, under no lock the
\* timer callback takes: a write lands between any two steps of the handler
SetStartLat(v) ==
    /\ start_lat # v
    /\ start_lat' = v
    /\ UNCHANGED <<start_lon, error_rate, signal_loss, gpsClock, gpsCoords,
                   tty_open, gps_pc, nmea_out, tick_log, gps_ticks>>

SetStartLon(v) ==
    /\ start_lon # v
    /\ start_lon' = v
    /\ UNCHANGED <<start_lat, error_rate, signal_loss, gpsClock, gpsCoords,
                   tty_open, gps_pc, nmea_out, tick_log, gps_ticks>>


(***************************************************************************)
(* Values of get_random_u32() and of the parameters the runs draw from.    *)
(***************************************************************************)
\* jitter magnitude draws (taken % 20) and sign draws (taken % 2)
JitterDraws == {0, 19}

SignDraws == {0, 1}

\* draws of the fault test (taken % 100)
FaultDraws == {99, 100}

\* draws of the four SNR jitters of one GNGSV message (taken % 5)
SnrDraws == {<<0, 1, 2, 3>>, <<4, 5, 6, 7>>}

\* values written to error_rate, inside and outside 0..100
ErrorRates == {-1, 0, 50, 100, 101}

\* values written to start_lat: the default (35 deg 18.9045 min south),
\* 48 deg 00.9999 min north and 12 deg 00.0010 min north
StartLats == {-35315075, 48016666, 12000017}

\* values written to start_lon: the default (149 deg 07.7642 min east),
\* 73 deg 00.0000 min west and 73 deg 00.9990 min west
StartLons == {149129404, -73000000, -73016650}

Init == PpsInit /\ GpsInit

(***************************************************************************)
(* The clock: the timer runs on its own, no reader attached.  The run is   *)
(* not bounded, the clock goes round the whole day.                        *)
(***************************************************************************)
ClockNext ==
    \/ \E j \in JitterDraws, s \in SignDraws :
          GpsTimerExpire(j, s, j, s, FALSE) /\ UNCHANGED ppsVars
    \/ \E d \in FaultDraws, room \in BOOLEAN :
          GpsSendGGA(d, room) /\ UNCHANGED ppsVars

SpecClock == Init /\ [][ClockNext]_vars

(***************************************************************************)
(* Fault injection: a reader attaches and leaves, error_rate and           *)
(* signal_loss are rewritten at any time, for MaxGpsTicks expiries; the    *)
(* flip buffer always has room.                                            *)
(***************************************************************************)
FaultNext ==
    \/ \E j \in JitterDraws, s \in SignDraws :
          GpsTimerExpire(j, s, j, s, TRUE) /\ UNCHANGED ppsVars
    \/ \E d \in FaultDraws :
          GpsSendGGA(d, TRUE) /\ UNCHANGED ppsVars
    \/ \E d \in FaultDraws :
          GpsSendRMC(d, TRUE) /\ UNCHANGED ppsVars
    \/ \E d \in FaultDraws :
          GpsSendGSA(d, TRUE) /\ UNCHANGED ppsVars
    \/ \E msg \in {0, 1}, snr \in SnrDraws, d \in FaultDraws :
          GpsSendGSV(msg, snr, d, TRUE) /\ UNCHANGED ppsVars
    \/ GpsTtyOpen /\ UNCHANGED ppsVars
    \/ GpsTtyClose /\ UNCHANGED ppsVars
    \/ \E v \in ErrorRates : SetErrorRate(v) /\ UNCHANGED ppsVars
    \/ \E v \in {0, 1} : SetSignalLoss(v) /\ UNCHANGED ppsVars

SpecFault == Init /\ [][FaultNext]_vars

(***************************************************************************)
(* Delivery: a reader attaches and leaves, and the flip buffer may lack    *)
(* room for any sentence; the parameters keep their defaults.              *)
(***************************************************************************)
DeliverNext ==
    \/ \E j \in JitterDraws, s \in SignDraws :
          GpsTimerExpire(j, s, j, s, TRUE) /\ UNCHANGED ppsVars
    \/ \E d \in FaultDraws, room \in BOOLEAN :
          GpsSendGGA(d, room) /\ UNCHANGED ppsVars
    \/ \E d \in FaultDraws, room \in BOOLEAN :
          GpsSendRMC(d, room) /\ UNCHANGED ppsVars
    \/ \E d \in FaultDraws, room \in BOOLEAN :
          GpsSendGSA(d, room) /\ UNCHANGED ppsVars
    \/ \E msg \in {0, 1}, snr \in SnrDraws, d \in FaultDraws,
          room \in BOOLEAN :
          GpsSendGSV(msg, snr, d, room) /\ UNCHANGED ppsVars
    \/ GpsTtyOpen /\ UNCHANGED ppsVars
    \/ GpsTtyClose /\ UNCHANGED ppsVars

SpecDeliver == Init /\ [][DeliverNext]_vars

(***************************************************************************)
(* Configuration: a reader is attached, the flip buffer has room, and      *)
(* start_lat, start_lon and signal_loss are rewritten at any time; the     *)
(* jitter of the two coordinates is drawn independently.                   *)
(***************************************************************************)
ConfigNext ==
    \/ \E j_lat, j_lon \in JitterDraws, s_lat, s_lon \in SignDraws :
          GpsTimerExpire(j_lat, s_lat, j_lon, s_lon, TRUE)
            /\ UNCHANGED ppsVars
    \/ GpsSendGGA(99, TRUE) /\ UNCHANGED ppsVars
    \/ GpsSendRMC(99, TRUE) /\ UNCHANGED ppsVars
    \/ GpsSendGSA(99, TRUE) /\ UNCHANGED ppsVars
    \/ \E msg \in {0, 1} :
          GpsSendGSV(msg, <<0, 1, 2, 3>>, 99, TRUE) /\ UNCHANGED ppsVars
    \/ GpsTtyOpen /\ UNCHANGED ppsVars
    \/ \E v \in StartLats : SetStartLat(v) /\ UNCHANGED ppsVars
    \/ \E v \in StartLons : SetStartLon(v) /\ UNCHANGED ppsVars
    \/ \E v \in {0, 1} : SetSignalLoss(v) /\ UNCHANGED ppsVars

SpecConfig == Init /\ [][ConfigNext]_vars

SpecPps == Init /\ [][PpsNext]_vars

(***************************************************************************)
(* Both engines side by side: the two timers, one PPS consumer doing what  *)
(* it likes, a GNSS reader that comes and goes, a flip buffer that may be  *)
(* full.  Only the timers are fair: a kernel timer that is armed expires   *)
(* and its callback runs to the end; no consumer or reader need ever act.  *)
(***************************************************************************)
TickConsumers == {"c1"}

\* a step of gps_simulate_nmea; the random draws are fixed; the flip
\* buffer may or may not have room for the GNGGA sentence and has none for
\* the sentences after it
GpsHandlerStep ==
    /\ \/ GpsTimerExpire(0, 0, 0, 0, TRUE)
       \/ \E room \in BOOLEAN : GpsSendGGA(99, room)
       \/ GpsSendRMC(99, FALSE)
       \/ GpsSendGSA(99, FALSE)
       \/ \E msg \in {0, 1} : GpsSendGSV(msg, <<0, 1, 2, 3>>, 99, FALSE)
    /\ UNCHANGED ppsVars

TicksNext ==
    \/ PpsTimerInc /\ UNCHANGED gpsVars
    \/ PpsTimerWake /\ UNCHANGED gpsVars
    \/ \E c \in TickConsumers, ok \in BOOLEAN :
          PpsOpen(c, ok) /\ UNCHANGED gpsVars
    \/ \E c \in TickConsumers : PpsRelease(c) /\ UNCHANGED gpsVars
    \/ \E c \in TickConsumers : PpsConsumerStep(c) /\ UNCHANGED gpsVars
    \/ \E c \in TickConsumers : SendSignal(c) /\ UNCHANGED gpsVars
    \/ GpsHandlerStep
    \/ GpsTtyOpen /\ UNCHANGED ppsVars
    \/ GpsTtyClose /\ UNCHANGED ppsVars

SpecTicksFair ==
    /\ Init
    /\ [][TicksNext]_vars
    /\ WF_vars(PpsTimerInc /\ UNCHANGED gpsVars)
    /\ WF_vars(PpsTimerWake /\ UNCHANGED gpsVars)
    /\ WF_vars(GpsHandlerStep)

\* steps a task takes inside pps_read once it has entered it
PpsInRead(c) ==
    /\ \/ PpsPrepareToWait(c)
       \/ PpsWaitCond(c)
       \/ PpsSchedule(c)
       \/ \E count \in ReadCounts, ok \in BOOLEAN : PpsReadCopy(c, count, ok)
    /\ UNCHANGED gpsVars

(***************************************************************************)
(* The scheduler runs every runnable task again, and a timer callback that *)
(* has started runs to its end.                                            *)
(***************************************************************************)
SpecPpsFair ==
    /\ Init
    /\ [][PpsNext]_vars
    /\ WF_vars(PpsTimerWake /\ UNCHANGED gpsVars)
    /\ \A c \in Consumers : WF_vars(PpsInRead(c))

(***************************************************************************)
(*                         Properties: PPS                                 *)
(***************************************************************************)

\* the read of consumer c has returned an event id to its caller
Delivered(c) == sys_ret[c].done /\ sys_ret[c].has_id

\* consumer c sleeps on the wait queue
Asleep(c) ==
    /\ rd_pc[c] = "sched"
    /\ task_state[c] = "interruptible"
    /\ c \in pps_wait_queue
    /\ ~sig_pending[c]

\* C1: every wait that was blocked when the counter advanced once (one
\* increment between finding the predicate false and finding it true)
\* returns the counter value that increment produced, so all such waiters
\* of one increment return the same event id.
C1_SameEventId ==
    /\ \A c \in Consumers :
          (Delivered(c) /\ w_ticks[c] = 1) => sys_ret[c].id = w_first[c]
    /\ \A c, d \in Consumers :
          (/\ Delivered(c) /\ w_ticks[c] = 1
           /\ Delivered(d) /\ w_ticks[d] = 1
           /\ w_first[c] = w_first[d]) => sys_ret[c].id = sys_ret[d].id

C1_Witness ==
    /\ \A c \in Consumers : Delivered(c) /\ w_ticks[c] = 1 /\ w_first[c] = 2
    /\ \A c \in Consumers : sys_ret[c].id = 2

\* C2: no wake-up is lost: a consumer that is in the wait loop when the
\* counter advances eventually returns from pps_read.
C2_NoLostWakeup ==
    \A c \in Consumers :
        (InWaitLoop(c) /\ w_ticks[c] >= 1) ~> (rd_pc[c] = "none")

C2_Witness ==
    /\ pps_timer_pc = "wake"
    /\ \A c \in Consumers : Asleep(c) /\ w_ticks[c] = 1

\* C3: the cursor starts at the counter value of the attach, so while the
\* counter still has that value the consumer's wait has not passed its
\* predicate, and any id it is given is larger than that value.
C3_AttachBlocksUntilNext ==
    \A c \in Consumers :
        /\ (file_open[c] /\ pps_event_counter = opened_at[c])
              => (rd_pc[c] # "copy" /\ ~Delivered(c))
        /\ Delivered(c) => sys_ret[c].id > opened_at[c]

C3_Witness ==
    \E c \in Consumers :
        /\ file_open[c] /\ opened_at[c] = 1 /\ pps_event_counter = 1
        /\ pps_timer_pc = "armed"
        /\ Asleep(c)

\* C4: a wait passes its predicate only with counter > last_seen, taking
\* the counter value as current_event; a normal return reports exactly
\* that value, which exceeds the previous last_seen, and stores it in
\* last_seen.
C4_NormalReturn ==
    [][\A c \in Consumers :
          /\ (rd_pc[c] # "copy" /\ rd_pc'[c] = "copy")
                => /\ pps_event_counter > private_data[c]
                   /\ current_event'[c] = pps_event_counter
          /\ (rd_pc[c] = "copy" /\ Delivered(c)')
                => /\ sys_ret'[c].id = current_event[c]
                   /\ sys_ret'[c].id > private_data[c]
                   /\ sys_ret'[c].id <= pps_event_counter
                   /\ sys_ret'[c].ret >= 0
                   /\ private_data'[c] = sys_ret'[c].id]_vars

C4_Witness ==
    \E c \in Consumers :
        /\ Delivered(c) /\ sys_ret[c].id = 2 /\ private_data[c] = 2
        /\ opened_at[c] = 0

\* C5: a wait that sees its interruption while the counter has not passed
\* the cursor returns -ERESTARTSYS and no event id, leaves its cursor and
\* the counter alone, and leaves every other consumer's cursor, position,
\* sleep and queue entry as they were.
C5_InterruptedWait ==
    [][\A c \in Consumers :
          (/\ rd_pc[c] = "cond" /\ rd_pc'[c] # "cond"
           /\ wait_int[c]
           /\ pps_event_counter <= private_data[c])
          => /\ rd_pc'[c] = "none"
             /\ sys_ret'[c].done /\ ~sys_ret'[c].has_id
             /\ sys_ret'[c].ret = -ERESTARTSYS
             /\ private_data' = private_data
             /\ file_open' = file_open
             /\ pps_event_counter' = pps_event_counter
             /\ pps_timer_pc' = pps_timer_pc
             /\ \A d \in Consumers \ {c} :
                   /\ rd_pc'[d] = rd_pc[d]
                   /\ task_state'[d] = task_state[d]
                   /\ sig_pending'[d] = sig_pending[d]
                   /\ sys_ret'[d] = sys_ret[d]
                   /\ (d \in pps_wait_queue') = (d \in pps_wait_queue)]_vars

C5_Witness ==
    \E c, d \in Consumers :
        /\ c # d
        /\ sys_ret[c].done /\ sys_ret[c].ret = -ERESTARTSYS
        /\ rd_pc[c] = "none" /\ file_open[c]
        /\ private_data[c] = 1 /\ pps_event_counter = 1
        /\ Asleep(d)

\* C6: the counter starts at 0, changes only in the timer's increment
\* step, by exactly one, and is never negative.
C6_CounterMonotonic ==
    /\ pps_event_counter = 0
    /\ [](pps_event_counter >= 0)
    /\ [][/\ (pps_event_counter' # pps_event_counter)
               => (pps_timer_pc = "armed" /\ pps_timer_pc' = "wake")
          /\ (pps_timer_pc = "armed" /\ pps_timer_pc' = "wake")
               => pps_event_counter' = pps_event_counter + 1
          /\ pps_event_counter' >= pps_event_counter]_vars

C6_Witness ==
    /\ pps_event_counter = 2
    /\ \E c, d \in Consumers :
          /\ Delivered(c) /\ sys_ret[c].id = 1
          /\ sys_ret[d].done /\ sys_ret[d].ret = -ENOMEM /\ ~file_open[d]


(***************************************************************************)
(*                         Properties: GNSS                                *)
(***************************************************************************)

\* seconds since midnight of the simulated clock
TimeOfDay == gps_hour * 3600 + gps_min * 60 + gps_sec

\* C7: every expiry of the GNSS timer advances the time of day by exactly
\* one second modulo 86400 (23:59:59 goes to 00:00:00), nothing else moves
\* the clock, and hour, minute and second stay in 0..23, 0..59 and 0..59.
C7_ClockAdvancesOneSecond ==
    /\ [](gps_hour \in 0..23 /\ gps_min \in 0..59 /\ gps_sec \in 0..59)
    /\ [][/\ (gps_pc = "armed" /\ gps_pc' # "armed")
               => TimeOfDay' = (TimeOfDay + 1) % 86400
          /\ ~(gps_pc = "armed" /\ gps_pc' # "armed")
               => TimeOfDay' = TimeOfDay]_vars

C7_Witness ==
    /\ gps_hour = 0 /\ gps_min = 0 /\ gps_sec = 0
    /\ gps_pc = "gga"

\* the sentence now in nmea_sentence went to the reader
Emitted == nmea_out.pushed

\* index of the first '*' of text b (0 if none)
StarAt(b) ==
    IF \E i \in 1..Len(b) : b[i] = 42
    THEN CHOOSE i \in 1..Len(b) :
            b[i] = 42 /\ \A j \in 1..(i - 1) : b[j] # 42
    ELSE 0

\* the exclusive or of the bytes strictly between '$' and '*', bit by bit:
\* bit k is the parity of the number of body bytes that have bit k set
BodyXor(b) ==
    LET body == 2..(StarAt(b) - 1)
        par(k) == Cardinality({i \in body : Bit(b[i], k) = 1}) % 2
    IN  par(0) + 2 * par(1) + 4 * par(2) + 8 * par(3)
          + 16 * par(4) + 32 * par(5) + 64 * par(6) + 128 * par(7)

\* value of an upper case hexadecimal digit (-1 if it is none)
HexVal(ch) ==
    IF ch >= 48 /\ ch <= 57 THEN ch - 48
    ELSE IF ch >= 65 /\ ch <= 70 THEN ch - 55
    ELSE -1

\* the number written by the two characters after '*' (-1 if not two hex
\* digits)
ChecksumField(b) ==
    LET st == StarAt(b)
    IN  IF st = 0 \/ st + 2 > Len(b) THEN -1
        ELSE IF HexVal(b[st + 1]) < 0 \/ HexVal(b[st + 2]) < 0 THEN -1
        ELSE 16 * HexVal(b[st + 1]) + HexVal(b[st + 2])

\* the sentence does not carry the checksum of its body
Corrupted(b) == ChecksumField(b) # BodyXor(b)

\* C8: every emitted sentence is '$', body, '*', two hex digits, CR LF; the
\* two digits are the exclusive or of the body bytes when the fault draw
\* of the sentence did not fire and that value plus one modulo 256 when it
\* fired.
C8_ChecksumField ==
    Emitted =>
        LET b == nmea_out.bytes
        IN  /\ b[1] = 36
            /\ StarAt(b) > 2
            /\ Len(b) = StarAt(b) + 4
            /\ b[Len(b) - 1] = 13 /\ b[Len(b)] = 10
            /\ ChecksumField(b) =
                  (IF nmea_out.fired THEN (BodyXor(b) + 1) % 256
                   ELSE BodyXor(b))

C8_Witness ==
    /\ Emitted /\ nmea_out.fired /\ nmea_out.kind = "RMC"
    /\ ChecksumField(nmea_out.bytes) = (BodyXor(nmea_out.bytes) + 1) % 256
    /\ nmea_out.bytes[StarAt(nmea_out.bytes) + 2] >= 65

\* C9: a sentence of any kind emitted while error_rate is 0 carries the
\* checksum of its body, whatever the draw and the tick; a sentence emitted
\* while error_rate is 100 never does.
C9_RateZeroAndHundred ==
    Emitted =>
        /\ nmea_out.rate = 0 => ~Corrupted(nmea_out.bytes)
        /\ nmea_out.rate = 100 => Corrupted(nmea_out.bytes)

C9_Witness ==
    /\ Emitted /\ nmea_out.rate = 100 /\ nmea_out.kind = "GSV2"
    /\ Corrupted(nmea_out.bytes)
    /\ gps_ticks = MaxGpsTicks

\* C10: error_rate outside 0..100 acts as if clamped: below 0 no emitted
\* sentence is corrupted, above 100 every emitted sentence is.
C10_ClampedRate ==
    Emitted =>
        /\ nmea_out.rate < 0 => ~Corrupted(nmea_out.bytes)
        /\ nmea_out.rate > 100 => Corrupted(nmea_out.bytes)


\* the positions of the commas of the body of text b
Commas(b) == {i \in 2..(StarAt(b) - 1) : b[i] = 44}

\* the position of the k-th comma of b; the '$' counts as comma 0 and the
\* '*' as the one after the last
CommaAt(b, k) ==
    IF k = 0 THEN 1
    ELSE IF k > Cardinality(Commas(b)) THEN StarAt(b)
    ELSE CHOOSE i \in Commas(b) :
            Cardinality({j \in Commas(b) : j < i}) = k - 1

\* the k-th comma separated field of the body of b (the talker is field 1)
Field(b, k) == SubSeq(b, CommaAt(b, k - 1) + 1, CommaAt(b, k) - 1)

\* the number a field of two decimal digits writes
TwoDigits(f) == 10 * (f[1] - 48) + (f[2] - 48)

\* C11: a sentence rendered with signal_loss set reports the loss (GGA fix
\* quality 0, RMC status V, GSA mode 1, the four SNR fields of either GSV
\* message 00); rendered with signal_loss clear it reports 1, A, 3 and for
\* satellite i an SNR in base .. base + 4.
C11_SignalLossFields ==
    Emitted =>
        LET b    == nmea_out.bytes
            lost == nmea_out.loss # 0
            base == IF nmea_out.kind = "GSV1" THEN 0 ELSE 4
        IN  /\ nmea_out.kind = "GGA" =>
                  Field(b, 7) = (IF lost THEN <<48>> ELSE <<49>>)
            /\ nmea_out.kind = "RMC" =>
                  Field(b, 3) = (IF lost THEN <<86>> ELSE <<65>>)
            /\ nmea_out.kind = "GSA" =>
                  Field(b, 3) = (IF lost THEN <<49>> ELSE <<51>>)
            /\ nmea_out.kind \in {"GSV1", "GSV2"} =>
                  \A n \in 1..4 :
                     LET f == Field(b, 4 + 4 * n)
                     IN  /\ Len(f) = 2
                         /\ IF lost THEN TwoDigits(f) = 0
                            ELSE TwoDigits(f) - sats[base + n].snr \in 0..4

C11_Witness ==
    /\ Emitted /\ nmea_out.kind = "GSV2" /\ nmea_out.loss # 0
    /\ tick_log = <<"GGA", "RMC", "GSA", "GSV1", "GSV2">>
    /\ \A n \in 1..4 : Field(nmea_out.bytes, 4 + 4 * n) = <<48, 48>>


\* the sentences of one tick, in the order of the handler
TickOrder == <<"GGA", "RMC", "GSA", "GSV1", "GSV2">>

\* the talker and, for GNGSV, the message number a sentence of each kind
\* carries
KindOfBytes(b) ==
    LET t == Field(b, 1)
    IN  IF t = <<71, 78, 71, 71, 65>> THEN "GGA"
        ELSE IF t = <<71, 78, 82, 77, 67>> THEN "RMC"
        ELSE IF t = <<71, 78, 71, 83, 65>> THEN "GSA"
        ELSE IF t = <<71, 78, 71, 83, 86>> /\ Field(b, 3) = <<49>> THEN "GSV1"
        ELSE IF t = <<71, 78, 71, 83, 86>> /\ Field(b, 3) = <<50>> THEN "GSV2"
        ELSE "other"

\* C12: with room in the buffer, the sentences pushed so far in a tick are
\* the first ones of GGA, RMC, GSA, GSV 1, GSV 2, as many as the handler has
\* gone through; a tick that found a reader ends with exactly these five,
\* each once, and each pushed sentence is of the kind its place says.
C12_SentenceOrder ==
    /\ tick_log = SubSeq(TickOrder, 1, Len(tick_log))
    /\ gps_pc = "gga" => tick_log = <<>>
    /\ gps_pc = "rmc" => Len(tick_log) = 1
    /\ gps_pc = "gsa" => Len(tick_log) = 2
    /\ gps_pc = "gsv0" => Len(tick_log) = 3
    /\ gps_pc = "gsv1" => Len(tick_log) = 4
    /\ gps_pc = "armed" => Len(tick_log) \in {0, 5}
    /\ Emitted => /\ tick_log # <<>>
                  /\ KindOfBytes(nmea_out.bytes) = tick_log[Len(tick_log)]

C12_Witness ==
    /\ gps_pc = "armed" /\ gps_ticks = 2
    /\ tick_log = TickOrder
    /\ Emitted /\ KindOfBytes(nmea_out.bytes) = "GSV2"


\* the handler is at the push of a sentence
AtSend == gps_pc \in {"gga", "rmc", "gsa", "gsv0", "gsv1"}

\* the kind of the sentence the handler is about to push
KindAt(pc) == CASE pc = "gga" -> "GGA" [] pc = "rmc" -> "RMC"
                [] pc = "gsa" -> "GSA" [] pc = "gsv0" -> "GSV1"
                [] pc = "gsv1" -> "GSV2" [] OTHER -> "none"

\* the handler's position after the push at pc
AfterSend(pc) == CASE pc = "gga" -> "rmc" [] pc = "rmc" -> "gsa"
                   [] pc = "gsa" -> "gsv0" [] pc = "gsv0" -> "gsv1"
                   [] OTHER -> "armed"

\* C13: without a reader at the start of a tick nothing is pushed in it;
\* a sentence is pushed whole exactly when the space granted is at least
\* its length, else not at all, and either way the handler moves on to the
\* next sentence; every tick starts with nothing pushed and pushes only
\* sentences rendered in it (GGA and RMC carry the tick's time), at most one
\* of each kind, so a sentence that was dropped is never delivered later.
C13_AtMostOnceNoQueue ==
    /\ [](Emitted => /\ nmea_out.space >= Len(nmea_out.bytes)
                     /\ nmea_out.kind \in {"GGA", "RMC"}
                           => Field(nmea_out.bytes, 2) = TimeField)
    /\ [](\A i, j \in 1..Len(tick_log) : tick_log[i] = tick_log[j] => i = j)
    /\ [][/\ (gps_pc = "armed" /\ gps_pc' # "armed") => tick_log' = <<>>
          /\ (gps_pc = "gga" /\ gps_pc' # "gga" /\ ~tty_open)
                => (gps_pc' = "armed" /\ tick_log' = <<>> /\ ~Emitted')
          /\ (AtSend /\ gps_pc' # gps_pc /\ (gps_pc = "gga" => tty_open))
                => /\ gps_pc' = AfterSend(gps_pc)
                   /\ nmea_out'.kind = KindAt(gps_pc)
                   /\ IF nmea_out'.space >= Len(nmea_out'.bytes)
                      THEN Emitted' /\ tick_log' = Append(tick_log, KindAt(gps_pc))
                      ELSE ~Emitted' /\ tick_log' = tick_log]_vars

C13_Witness ==
    /\ gps_pc = "armed" /\ gps_ticks = 2
    /\ tick_log = <<"GGA", "GSA">>
    /\ nmea_out.kind = "GSV2" /\ ~Emitted
    /\ nmea_out.space = Len(nmea_out.bytes) - 1


\* C14: neither timer waits for anybody.  Whatever the consumer and the
\* reader do or fail to do, every GNSS expiry advances the clock by a
\* second, every PPS expiry increments the counter, and every fair run
\* goes through all the expiries of both timers (MaxGpsTicks and
\* MaxPpsTicks of them, where the run is cut) and ends with both re-armed.
C14_TicksNeverStall ==
    /\ [][/\ gps_ticks' # gps_ticks
                => /\ gps_ticks' = gps_ticks + 1
                   /\ TimeOfDay' = (TimeOfDay + 1) % 86400
          /\ (pps_timer_pc = "armed" /\ pps_timer_pc' = "wake")
                => pps_event_counter' = pps_event_counter + 1]_vars
    /\ <>[](/\ gps_ticks = MaxGpsTicks /\ gps_pc = "armed"
            /\ pps_event_counter = MaxPpsTicks /\ pps_timer_pc = "armed")

C14_Witness ==
    /\ gps_ticks = MaxGpsTicks /\ gps_pc = "armed"
    /\ tty_open /\ nmea_out.kind = "GSV2" /\ ~Emitted /\ tick_log = <<>>
    /\ pps_event_counter = MaxPpsTicks /\ pps_timer_pc = "armed"
    /\ Asleep("c1") /\ private_data["c1"] = MaxPpsTicks

\* the latitude and longitude fields of a GGA or RMC text and their
\* hemisphere letters (RMC has the status field before them)
PosBase(b) == IF KindOfBytes(b) = "RMC" THEN 4 ELSE 3

\* what a render from the one value v of start_lat writes as degrees and
\* whole minutes, and as hemisphere
LatDigitsOf(v) == FmtD0(CoordDeg(v), 2) \o FmtD0(CoordMinInt(v), 2)
LonDigitsOf(v) == FmtD0(CoordDeg(v), 3) \o FmtD0(CoordMinInt(v), 2)

\* C15: every emitted GGA or RMC sentence has the degree and minute digits
\* and the hemisphere letter of its latitude derived from one and the same
\* value of start_lat, and those of its longitude from one value of
\* start_lon, whatever is written to the parameters during the tick.
C15_UntornRender ==
    (Emitted /\ nmea_out.kind \in {"GGA", "RMC"}) =>
        LET b == nmea_out.bytes
            k == PosBase(b)
        IN  /\ \E v \in StartLats :
                  /\ SubSeq(Field(b, k), 1, 4) = LatDigitsOf(v)
                  /\ Field(b, k + 1) = LatLetterOf(v)
            /\ \E v \in StartLons :
                  /\ SubSeq(Field(b, k + 2), 1, 5) = LonDigitsOf(v)
                  /\ Field(b, k + 3) = LonLetterOf(v)


\* one expiry of the GNSS timer: the handler leaves "armed" for the GGA step
GpsExpiry == gps_pc = "armed" /\ gps_pc' = "gga"

\* C16: lat_min_frac and lon_min_frac are within 0..9999 in every state;
\* the jitter step of a tick leaves them there for every magnitude 0..19
\* and either sign, and leaves the degrees and whole minutes those of the
\* parameter: an overflow or underflow is clamped, not carried.
C16_JitterClamped ==
    /\ [](lat_min_frac \in 0..9999 /\ lon_min_frac \in 0..9999)
    /\ [][GpsExpiry =>
            /\ lat_deg' = CoordDeg(start_lat)
            /\ lat_min_int' = CoordMinInt(start_lat)
            /\ lon_deg' = CoordDeg(start_lon)
            /\ lon_min_int' = CoordMinInt(start_lon)
            /\ \E j \in 0..19, s \in {0, 1} :
                  lat_min_frac' = Jitter(CoordMinFrac(start_lat), j, s)
            /\ \E j \in 0..19, s \in {0, 1} :
                  lon_min_frac' = Jitter(CoordMinFrac(start_lon), j, s)
            /\ \A j \in 0..19, s \in {0, 1} :
                  /\ Jitter(CoordMinFrac(start_lat), j, s) \in 0..9999
                  /\ Jitter(CoordMinFrac(start_lon), j, s) \in 0..9999]_vars

\* a tick whose latitude underflowed (00.0010 - 19) and whose longitude
\* overflowed (00.9990 + 19), both clamped
C16_Witness ==
    /\ gps_pc = "gga"
    /\ lat_deg = 12 /\ lat_min_int = 0 /\ lat_min_frac = 0
    /\ lon_deg = 73 /\ lon_min_int = 0 /\ lon_min_frac = 9999


\* "GNGGA,123519,3518.9045,S,14907.7642,E,1,08,0.9,545.4,M,46.9,M,,"
ExampleBodyGGA ==
    <<71, 78, 71, 71, 65, 44, 49, 50, 51, 53, 49, 57, 44,
       51, 53, 49, 56, 46, 57, 48, 52, 53, 44, 83, 44, 49,
       52, 57, 48, 55, 46, 55, 54, 52, 50, 44, 69, 44, 49,
       44, 48, 56, 44, 48, 46, 57, 44, 53, 52, 53, 46, 52,
       44, 77, 44, 52, 54, 46, 57, 44, 77, 44, 44>>

\* the handler is about to render the sentences of 12:35:19 from the default
\* parameters, with no jitter and no signal loss
ExampleTick ==
    /\ gps_pc = "gga"
    /\ gps_hour = 12 /\ gps_min = 35 /\ gps_sec = 19
    /\ start_lat = -35315075 /\ start_lon = 149129404
    /\ lat_min_frac = CoordMinFrac(start_lat)
    /\ lon_min_frac = CoordMinFrac(start_lon)
    /\ signal_loss = 0

\* the first expiry after load, with no jitter: the state in which the
\* derivation is checked over its whole domain
FirstTick ==
    /\ gps_pc = "gga"
    /\ gps_hour = 12 /\ gps_min = 35 /\ gps_sec = 20
    /\ lat_min_frac = CoordMinFrac(start_lat)
    /\ lon_min_frac = CoordMinFrac(start_lon)

\* C17: at 12:35:19 with the default parameters, zero jitter and no signal
\* loss the GGA body is GNGGA,123519,3518.9045,S,14907.7642,E,1,08,0.9,
\* 545.4,M,46.9,M,, ; for every fractional part x of a micro-degree value
\* the derived minutes are within 0..59 and the ten-thousandths within
\* 0..9999, the degrees are |v| / 1000000, and the letter is S (W) exactly
\* for a negative value.
C17_DerivationAndExample ==
    /\ ExampleTick =>
        /\ ContentGGA = ExampleBodyGGA
        /\ lat_deg = 35 /\ lat_min_int = 18 /\ lat_min_frac = 9045
        /\ lon_deg = 149 /\ lon_min_int = 7 /\ lon_min_frac = 7642
    /\ FirstTick =>
        /\ \A x \in 0..999999 :
              /\ CoordMinInt(x) \in 0..59
              /\ CoordMinFrac(x) \in 0..9999
        /\ \A v \in StartLats \cup StartLons \cup {-1, 0, 1} :
              /\ CoordDeg(v) = (IF v < 0 THEN -v ELSE v) \div 1000000
              /\ CoordMinInt(v) = CoordMinInt(-v)
              /\ CoordMinFrac(v) = CoordMinFrac(-v)
              /\ (LatLetterOf(v) = <<83>>) = (v < 0)
              /\ (LatLetterOf(v) = <<78>>) = (v >= 0)
              /\ (LonLetterOf(v) = <<87>>) = (v < 0)
              /\ (LonLetterOf(v) = <<69>>) = (v >= 0)

C17_Witness == ExampleTick /\ ContentGGA = ExampleBodyGGA


\* C18 as amended: every expiry derives degrees, minutes and fraction anew
\* from the values start_lat and start_lon hold at that moment and adds the
\* jitter of this tick alone; no other step changes the coordinates.  So a
\* value written to a parameter shows from the next tick on, and the
\* fraction is never more than 19 away from that of a written value.
C18_RederivedEveryTick ==
    /\ [](\E v \in StartLats :
            /\ lat_deg = CoordDeg(v) /\ lat_min_int = CoordMinInt(v)
            /\ lat_min_frac - CoordMinFrac(v) \in -19..19)
    /\ [](\E v \in StartLons :
            /\ lon_deg = CoordDeg(v) /\ lon_min_int = CoordMinInt(v)
            /\ lon_min_frac - CoordMinFrac(v) \in -19..19)
    /\ [][/\ GpsExpiry =>
               /\ lat_deg' = CoordDeg(start_lat)
               /\ lat_min_int' = CoordMinInt(start_lat)
               /\ lat_min_frac' - CoordMinFrac(start_lat) \in -19..19
               /\ lon_deg' = CoordDeg(start_lon)
               /\ lon_min_int' = CoordMinInt(start_lon)
               /\ lon_min_frac' - CoordMinFrac(start_lon) \in -19..19
          /\ ~GpsExpiry => UNCHANGED gpsCoords]_vars

\* the second tick renders the position written after the first
C18_Witness ==
    /\ gps_ticks = 2 /\ gps_pc = "rmc" /\ Emitted
    /\ start_lat = 48016666 /\ lat_deg = 48 /\ lat_min_int = 0
    /\ start_lon = -73016650 /\ lon_deg = 73

\* C18 as stated: the coordinates were derived once; an expiry keeps the
\* degrees and minutes and adds its jitter to the fraction the tick before
\* left, whatever was written to start_lat or start_lon since.
C18_DerivedOnceRandomWalk ==
    [][GpsExpiry =>
         /\ lat_deg' = lat_deg /\ lat_min_int' = lat_min_int
         /\ lon_deg' = lon_deg /\ lon_min_int' = lon_min_int
         /\ \E j \in 0..19, s \in {0, 1} :
               lat_min_frac' = Jitter(lat_min_frac, j, s)
         /\ \E j \in 0..19, s \in {0, 1} :
               lon_min_frac' = Jitter(lon_min_frac, j, s)]_vars


\* steps of consumer c: a successful attach, a failed attach, a detach
AttachStep(c) == ~file_open[c] /\ file_open'[c]

FailedAttachStep(c) ==
    ~file_open[c] /\ ~file_open'[c] /\ sys_ret'[c] # sys_ret[c]

DetachStep(c) == file_open[c] /\ ~file_open'[c]

\* everything of the PPS engine but consumer c's own file is as it was
OthersUntouched(c) ==
    /\ pps_event_counter' = pps_event_counter
    /\ pps_timer_pc' = pps_timer_pc
    /\ pps_wait_queue' = pps_wait_queue
    /\ \A d \in Consumers \ {c} :
          /\ file_open'[d] = file_open[d]
          /\ private_data'[d] = private_data[d]
          /\ rd_pc'[d] = rd_pc[d]
          /\ current_event'[d] = current_event[d]
          /\ task_state'[d] = task_state[d]
          /\ sig_pending'[d] = sig_pending[d]
          /\ wait_int'[d] = wait_int[d]
          /\ sys_ret'[d] = sys_ret[d]

\* C19: a successful attach (cursor set to the counter, 0 returned), a
\* failed attach (-ENOMEM returned, no cursor created) and a detach each
\* leave the counter, the timer's position, the wait queue and every other
\* consumer's cursor, position in pps_read and sleep as they were.
C19_AttachDetachLocal ==
    [][\A c \in Consumers :
          /\ AttachStep(c) =>
                /\ OthersUntouched(c)
                /\ private_data'[c] = pps_event_counter
                /\ sys_ret'[c] = Ret(0)
          /\ FailedAttachStep(c) =>
                /\ OthersUntouched(c)
                /\ sys_ret'[c] = Ret(-ENOMEM)
                /\ private_data'[c] = private_data[c]
          /\ DetachStep(c) =>
                /\ OthersUntouched(c)
                /\ sys_ret'[c] = Ret(0)]_vars

\* one consumer's attach has failed while the other sleeps in its wait and
\* the timer is between its increment and its wake-up
C19_Witness ==
    \E c, d \in Consumers :
        /\ c # d
        /\ ~file_open[c] /\ sys_ret[c] = Ret(-ENOMEM)
        /\ Asleep(d) /\ private_data[d] = 1
        /\ pps_timer_pc = "wake" /\ pps_event_counter = 2


\* consumer c enters pps_read
ReadEntry(c) == file_open[c] /\ rd_pc[c] = "none" /\ rd_pc'[c] # "none"

\* C20: events are coalesced per cursor.  A read entered with the counter
\* two or more ahead of the cursor passes at once with the current counter
\* value; a read entered with the counter at the cursor goes to the wait
\* loop and passes only once the counter is ahead; every successful read
\* returns an id above the cursor (the id of the read before it) and
\* leaves the cursor at that id.
C20_CoalescedPerCursor ==
    [][\A c \in Consumers :
          /\ (ReadEntry(c) /\ pps_event_counter - private_data[c] >= 2)
                => /\ rd_pc'[c] = "copy"
                   /\ current_event'[c] = pps_event_counter
          /\ (ReadEntry(c) /\ pps_event_counter = private_data[c])
                => rd_pc'[c] = "prepare"
          /\ (rd_pc[c] # "copy" /\ rd_pc'[c] = "copy")
                => pps_event_counter > private_data[c]
          /\ (rd_pc[c] = "copy" /\ Delivered(c)')
                => /\ sys_ret'[c].id > private_data[c]
                   /\ private_data'[c] = sys_ret'[c].id
          /\ (file_open[c] /\ file_open'[c])
                => private_data'[c] >= private_data[c]]_vars

\* a read that did not wait is about to return 3 to a cursor at 0, skipping
\* 1 and 2, while the other consumer, whose cursor is at 3, sleeps
C20_Witness ==
    \E c, d \in Consumers :
        /\ c # d
        /\ rd_pc[c] = "copy" /\ current_event[c] = 3
        /\ private_data[c] = 0 /\ w_ticks[c] = 0
        /\ private_data[d] = 3 /\ Asleep(d)


\* the last system call of consumer c was a read whose copy_to_user failed
CopyFailed(c) ==
    file_open[c] /\ rd_pc[c] = "none" /\ sys_ret[c] = Ret(-EFAULT)

\* C21: a read that passed its wait and whose copy to the caller fails
\* returns -EFAULT with no event id and leaves the cursor where it was, so
\* the counter stays ahead of the cursor; the consumer's next read then
\* passes at once, with an id above the cursor.
C21_FailedCopyNotConsumed ==
    /\ [](\A c \in Consumers :
            CopyFailed(c) => pps_event_counter > private_data[c])
    /\ [][\A c \in Consumers :
            /\ (rd_pc[c] = "copy" /\ rd_pc'[c] = "none" /\ ~Delivered(c)')
                  => /\ sys_ret'[c] = Ret(-EFAULT)
                     /\ private_data'[c] = private_data[c]
                     /\ current_event[c] > private_data[c]
            /\ (CopyFailed(c) /\ ReadEntry(c))
                  => /\ rd_pc'[c] = "copy"
                     /\ current_event'[c] > private_data[c]
                     /\ private_data'[c] = private_data[c]]_vars

\* a read that slept through the increment to 2 was woken, failed to copy,
\* and left its cursor at 1
C21_Witness ==
    \E c \in Consumers :
        /\ CopyFailed(c)
        /\ w_ticks[c] = 1 /\ w_first[c] = 2
        /\ private_data[c] = 1 /\ pps_event_counter = 2


=============================================================================
